---- MODULE Spec2Model ----
(***************************************************************************)
(* Model of scripts/sync_readme.py (the Sync tool) and                     *)
(* scripts/check_synced_readme.py (the Check tool, a bash script).         *)
(*                                                                         *)
(* Text is a sequence of atoms.  An atom is one character, or one whole    *)
(* marker literal.  A marker may be one atom because both literals begin   *)
(* with "<", contain no other "<", and contain no newline and no backtick: *)
(* two marker occurrences never overlap, and no concatenation made by the  *)
(* script can create or destroy an occurrence across a seam.  str.split on *)
(* a marker is therefore exactly a split of the atom sequence at that atom.*)
(*                                                                         *)
(* The scripts run on a POSIX system (the Check tool is a bash script)     *)
(* under Python 3: open in mode r reads with universal newlines and        *)
(* open in mode w writes "\n" as "\n".                                     *)
(*                                                                         *)
(* The environment is fixed during a behaviour: what the CLI prints (or    *)
(* that it fails), the index and last-commit versions of the README, and   *)
(* whether git diff can run at all.  The scripts run one at a time; the    *)
(* Sync tool is one step, the Check tool three (lines 6-11, 13, 15-21).    *)
(***************************************************************************)
EXTENDS Integers, Sequences, FiniteSets, TLC

VARIABLES
    readme,     \* content of README.md in the working tree (the file's bytes)
    index,      \* content of README.md in the git index (staged version)
    head,       \* content of README.md in the last commit
    gitOk,      \* whether git diff can run here (FALSE: it prints nothing
                \* on standard output and returns a non-zero status)
    cli,        \* what cargo run -- --help does: [ok, out]
    pc,         \* position of the Check tool: "idle", "l13" or "l15"
    chk,        \* observations of the current / most recent Check run
    syncLog     \* the last (at most two) runs of the Sync tool, newest last

vars == <<readme, index, head, gitOk, cli, pc, chk, syncLog>>

----------------------------------------------------------------------------
(* Bounds of the model *)

MaxLen == 3      \* longest free-form README of the initial state, in atoms
MaxHelp == 1     \* longest help text the CLI prints, in atoms

----------------------------------------------------------------------------
(* Constants of sync_readme.py *)

tag_start == "<!-- HELP_START -->"
tag_end == "<!-- HELP_END -->"

CR == "\r"
LF == "\n"

\* the backtick character (a backtick cannot be written in a TLA+ string)
BT == "BACKTICK"

\* the literal newline + three backticks + newline that line 19 puts on
\* both sides of the help text
fence == <<LF, BT, BT, BT, LF>>

\* atoms a README may hold initially, and atoms a help text may hold
Char == {tag_start, tag_end, "a", CR, LF}
HelpChar == {tag_start, tag_end, "a"}

SeqsUpTo(S, n) == UNION {[1..k -> S] : k \in 0..n}

\* help texts, and text found around the markers of a README synced earlier
Helps == SeqsUpTo(HelpChar, MaxHelp)
Pads == {<<>>, <<"a">>, <<CR, LF>>, <<tag_start>>}

----------------------------------------------------------------------------
(* Pure text functions *)

RECURSIVE SplitFrom(_, _, _)
\* Python str.split(sep) for a one-atom separator: cur is the segment
\* being collected, s the text still to scan.
SplitFrom(s, sep, cur) ==
    IF s = <<>> THEN <<cur>>
    ELSE IF Head(s) = sep THEN <<cur>> \o SplitFrom(Tail(s), sep, <<>>)
    ELSE SplitFrom(Tail(s), sep, Append(cur, Head(s)))

\* A split that never yields fewer than two segments: what the script would
\* get if a missing separator produced an empty second segment instead of
\* a one-element list.
split_lenient(s, sep) ==
    LET parts == SplitFrom(s, sep, <<>>)
    IN  IF Len(parts) < 2 THEN Append(parts, <<>>) ELSE parts

split(s, sep) == SplitFrom(s, sep, <<>>)

RECURSIVE ReadText(_)
\* file.read() of a file opened with mode r: universal newlines turn
\* "\r\n" and a lone "\r" into "\n".
ReadText(b) ==
    IF b = <<>> THEN <<>>
    ELSE IF Head(b) = CR
         THEN IF Len(b) >= 2 /\ b[2] = LF
              THEN <<LF>> \o ReadText(Tail(Tail(b)))
              ELSE <<LF>> \o ReadText(Tail(b))
         ELSE <<Head(b)>> \o ReadText(Tail(b))

\* file.write(out) of a file opened with mode w on POSIX: "\n" stays "\n"
WriteText(t) == t

\* Line 19 with the newline between the help text and the closing fence
\* left out (the help text of a CLI usually ends in a newline of its own).
Reassemble_NoNewline(start, help_text, end) ==
    start \o <<tag_start>> \o fence \o help_text \o <<BT, BT, BT, LF>>
          \o <<tag_end>> \o end

\* line 19: the reassembled document
Reassemble(start, help_text, end) ==
    start \o <<tag_start>> \o fence \o help_text \o fence \o <<tag_end>> \o end

\* One run of sync_readme.py on file content file with the CLI behaving
\* as c.  exit is the process exit status, wrote says whether line 23 ran,
\* after is the file content when the process has ended.
SyncRun(file, c) ==
    IF ~c.ok
    THEN \* line 9: check_output / decode raises
         [exit |-> 1, captured |-> TRUE, wrote |-> FALSE, after |-> file]
    ELSE
    LET help_text == c.out
        data == ReadText(file)
        start_parts == split(data, tag_start)
        start == start_parts[1]
    IN  IF Len(start_parts) < 2
        THEN \* line 17: start_parts[1] raises IndexError
             [exit |-> 1, captured |-> TRUE, wrote |-> FALSE, after |-> file]
        ELSE
        LET end_parts == split(start_parts[2], tag_end)
        IN  IF Len(end_parts) < 2
            THEN \* line 17: [...].split(tag_end)[1] raises IndexError
                 [exit |-> 1, captured |-> TRUE, wrote |-> FALSE, after |-> file]
            ELSE
            LET end == end_parts[2]
                out == Reassemble(start, help_text, end)
            IN  [exit |-> 0, captured |-> TRUE, wrote |-> TRUE,
                 after |-> WriteText(out)]

\* Standard output of git diff $FILE.  With no revision argument git diff
\* compares the working-tree file with the index version: the output is
\* empty exactly when they are equal, otherwise a patch from the one to
\* the other.  A git that cannot run prints nothing on standard output.
GitDiff(work, idx, ok) ==
    IF ~ok THEN <<>>
    ELSE IF work = idx THEN <<>> ELSE <<"diff", idx, work>>

----------------------------------------------------------------------------
(* State machine *)

\* chk before any Check run.  start / final: README content when the run
\* began / ended; diff1, diff2: what the tests of lines 6 and 15 saw;
\* syncRuns: times line 13 ran; syncExit: exit status of line 13;
\* out2: the diff text seen at line 15; printed: the diff text printed at
\* line 18; exit: exit status of the run (-1: not ended / not run);
\* committed: the last commit's README when the run began; gitFailed:
\* whether a git diff of the run returned a non-zero status.
NoCheck ==
    [start |-> <<>>, final |-> <<>>, diff1 |-> "none", syncRuns |-> 0,
     syncExit |-> -1, diff2 |-> "none", out2 |-> <<>>, printed |-> <<>>,
     exit |-> -1, committed |-> <<>>, gitFailed |-> FALSE]

\* chk when a Check run begins
NewCheck ==
    [NoCheck EXCEPT !.start = readme, !.committed = head, !.gitFailed = ~gitOk]

LogRun(before, c, r) ==
    LET rec == [before |-> before, help |-> c, exit |-> r.exit,
                wrote |-> r.wrote, after |-> r.after]
    IN  IF Len(syncLog) < 2 THEN Append(syncLog, rec)
        ELSE <<syncLog[2], rec>>

\* READMEs of the initial state: any short text, or the output of an
\* earlier Sync run (with some help text of that time) inside other text.
Docs ==
    SeqsUpTo(Char, MaxLen)
    \cup {Reassemble(p, h, q) : p \in Pads, h \in Helps, q \in Pads}

\* The working tree is clean, or holds one change that is not staged (the
\* last atom of the README is not in the index version), and the index is
\* committed or holds one staged change of the same kind.
Init ==
    /\ readme \in Docs
    /\ index \in {readme, SubSeq(readme, 1, Len(readme) - 1)}
    /\ head \in {index, SubSeq(index, 1, Len(index) - 1)}
    /\ gitOk \in BOOLEAN
    /\ cli \in {[ok |-> FALSE, out |-> <<>>]}
              \cup {[ok |-> TRUE, out |-> h] : h \in Helps}
    /\ pc = "idle"
    /\ chk = NoCheck
    /\ syncLog = <<>>

\* The user runs ./scripts/sync_readme.py directly.
Sync ==
    /\ pc = "idle"
    /\ LET r == SyncRun(readme, cli)
       IN  /\ readme' = r.after
           /\ syncLog' = LogRun(readme, cli, r)
    /\ UNCHANGED <<index, head, gitOk, cli, pc, chk>>

\* The precondition with the exit 1 of line 10 left out: a dirty README is
\* reported and the script goes on to line 13.
CheckPrecondition_NoExit ==
    /\ pc = "idle"
    /\ IF GitDiff(readme, index, gitOk) = <<>>
       THEN chk' = [NewCheck EXCEPT !.diff1 = "empty"]
       ELSE chk' = [NewCheck EXCEPT !.diff1 = "nonempty"]
    /\ pc' = "l13"
    /\ UNCHANGED <<readme, index, head, gitOk, cli, syncLog>>

\* check_synced_readme.py lines 6-11: the precondition.
CheckPrecondition ==
    /\ pc = "idle"
    /\ IF GitDiff(readme, index, gitOk) = <<>>
       THEN /\ chk' = [NewCheck EXCEPT !.diff1 = "empty"]
            /\ pc' = "l13"
       ELSE /\ chk' = [NewCheck EXCEPT !.diff1 = "nonempty",
                                       !.final = readme, !.exit = 1]
            /\ pc' = "idle"
    /\ UNCHANGED <<readme, index, head, gitOk, cli, syncLog>>

\* check_synced_readme.py line 13 (under set -e): run the Sync tool.
CheckRunSync ==
    /\ pc = "l13"
    /\ LET r == SyncRun(readme, cli)
       IN  /\ readme' = r.after
           /\ syncLog' = LogRun(readme, cli, r)
           /\ IF r.exit = 0
              THEN /\ chk' = [chk EXCEPT !.syncRuns = @ + 1, !.syncExit = 0]
                   /\ pc' = "l15"
              ELSE /\ chk' = [chk EXCEPT !.syncRuns = @ + 1,
                                         !.syncExit = r.exit,
                                         !.final = r.after, !.exit = r.exit]
                   /\ pc' = "idle"
    /\ UNCHANGED <<index, head, gitOk, cli>>

\* The postcondition with the exit 1 of line 20 left out: the diff is
\* printed and the script ends with the status of its last command, 0.
CheckPostcondition_NoExit ==
    /\ pc = "l15"
    /\ IF GitDiff(readme, index, gitOk) = <<>>
       THEN chk' = [chk EXCEPT !.diff2 = "empty", !.final = readme,
                               !.exit = 0]
       ELSE chk' = [chk EXCEPT !.diff2 = "nonempty",
                               !.out2 = GitDiff(readme, index, gitOk),
                               !.printed = GitDiff(readme, index, gitOk),
                               !.final = readme, !.exit = 0]
    /\ pc' = "idle"
    /\ UNCHANGED <<readme, index, head, gitOk, cli, syncLog>>

\* check_synced_readme.py lines 15-21: the postcondition.
CheckPostcondition ==
    /\ pc = "l15"
    /\ IF GitDiff(readme, index, gitOk) = <<>>
       THEN chk' = [chk EXCEPT !.diff2 = "empty", !.final = readme,
                               !.exit = 0]
       ELSE chk' = [chk EXCEPT !.diff2 = "nonempty",
                               !.out2 = GitDiff(readme, index, gitOk),
                               !.printed = GitDiff(readme, index, gitOk),
                               !.final = readme, !.exit = 1]
    /\ pc' = "idle"
    /\ UNCHANGED <<readme, index, head, gitOk, cli, syncLog>>

Next ==
    \/ Sync
    \/ CheckPrecondition
    \/ CheckRunSync
    \/ CheckPostcondition

Spec == Init /\ [][Next]_vars

----------------------------------------------------------------------------
(* Vocabulary of the properties.  Marker positions are read off the text   *)
(* directly, not through split.                                            *)

Positions(t, a) == {i \in DOMAIN t : t[i] = a}
Count(t, a) == Cardinality(Positions(t, a))
Min(S) == CHOOSE x \in S : \A y \in S : x <= y
Max(S) == CHOOSE x \in S : \A y \in S : y <= x

\* each marker exactly once, the start marker before the end marker
WellFormed(t) ==
    /\ Count(t, tag_start) = 1
    /\ Count(t, tag_end) = 1
    /\ Min(Positions(t, tag_start)) < Min(Positions(t, tag_end))

\* the start marker is absent, or the end marker is absent, or no end
\* marker occurs after the start marker
Malformed(t) ==
    ~ \E i \in Positions(t, tag_start) : \E j \in Positions(t, tag_end) : i < j

\* text strictly before the first start marker / after the last end marker
BeforeStart(t) == SubSeq(t, 1, Min(Positions(t, tag_start)) - 1)
AfterEnd(t) == SubSeq(t, Max(Positions(t, tag_end)) + 1, Len(t))
\* text strictly between the markers of a well-formed text
Region(t) ==
    SubSeq(t, Min(Positions(t, tag_start)) + 1, Min(Positions(t, tag_end)) - 1)

\* newline, fence open, newline, h, newline, fence close, newline
Wrapping(h) == <<LF, BT, BT, BT, LF>> \o h \o <<LF, BT, BT, BT, LF>>

Runs == {syncLog[i] : i \in DOMAIN syncLog}
CheckEnded == pc = "idle" /\ chk.exit # -1

----------------------------------------------------------------------------
(* C1: Sync is idempotent.  For a README R holding both markers (here: each *)
(* once and in order) and any help text H, markers in H included, Sync on R *)
(* and then Sync on the result with the same H succeed both, and the second *)
(* run writes exactly what the first run wrote.                             *)
C1_Idempotent ==
    Len(syncLog) = 2 =>
        LET r1 == syncLog[1]
            r2 == syncLog[2]
        IN  (/\ WellFormed(r1.before)
             /\ r1.help.ok
             /\ r2.before = r1.after
             /\ r2.help = r1.help)
            => (/\ r1.exit = 0
                /\ r2.exit = 0
                /\ r2.after = r1.after)

(* C2: marker preservation.  After a successful Sync on a well-formed      *)
(* README R, the text before the start marker and the text after the end   *)
(* marker of the written file equal the corresponding text of R.           *)
C2_MarkerPreservation ==
    \A r \in Runs :
        (WellFormed(r.before) /\ r.exit = 0)
        => (/\ BeforeStart(r.after) = BeforeStart(r.before)
            /\ AfterEnd(r.after) = AfterEnd(r.before))

(* C3: replacement correctness.  After a successful Sync on a well-formed  *)
(* README, whatever its region held, the text between the start marker and *)
(* the end marker of the written file is exactly newline, fence, newline,  *)
(* H, newline, fence, newline; the whole file is prefix, start marker,     *)
(* that wrapping, end marker, suffix, where prefix and suffix are the text *)
(* before the start marker and after the end marker of the document the    *)
(* Sync tool read.                                                         *)
C3_ReplacementCorrect ==
    \A r \in Runs :
        (WellFormed(r.before) /\ r.exit = 0)
        => LET doc == ReadText(r.before)
               lo == Min(Positions(r.after, tag_start))
               hi == Max(Positions(r.after, tag_end))
           IN  /\ SubSeq(r.after, lo + 1, hi - 1) = Wrapping(r.help.out)
               /\ r.after = BeforeStart(doc) \o <<tag_start>>
                               \o Wrapping(r.help.out)
                               \o <<tag_end>> \o AfterEnd(doc)

\* a successful Sync replaced a non-empty region that was not the wrapping
\* of the help text, in a README with text on both sides of the markers
C3_Witness ==
    \E r \in Runs :
        /\ WellFormed(r.before) /\ r.exit = 0
        /\ Region(r.before) # <<>>
        /\ Region(r.before) # Wrapping(r.help.out)
        /\ BeforeStart(r.before) # <<>>
        /\ AfterEnd(r.before) # <<>>
        /\ r.after # r.before

(* C4: malformed input rejection.  When the start marker is absent, or the *)
(* end marker is absent or does not occur after the start marker, Sync     *)
(* ends in error, never reaches the write, and leaves the file as it was.  *)
C4_MalformedRejected ==
    \A r \in Runs :
        Malformed(r.before)
        => (r.exit # 0 /\ ~r.wrote /\ r.after = r.before)

\* a Sync run that captured the help text and then failed on a README
\* holding both markers in the wrong order
C4_Witness ==
    \E r \in Runs :
        /\ r.help.ok
        /\ Count(r.before, tag_start) > 0
        /\ Count(r.before, tag_end) > 0
        /\ Malformed(r.before)
        /\ r.exit = 1

(* C5: Check precondition.  When the first diff is not empty the Check     *)
(* tool exits non-zero at once: in that run Sync is never invoked, the     *)
(* README is not written and the second diff is never taken.               *)
C5_DirtyStopsCheck ==
    chk.diff1 = "nonempty"
    => (/\ pc = "idle"
        /\ chk.exit # 0 /\ chk.exit # -1
        /\ chk.syncRuns = 0
        /\ chk.syncExit = -1
        /\ chk.diff2 = "none"
        /\ chk.final = chk.start)

\* a Check run that found the README dirty has ended
C5_Witness == chk.diff1 = "nonempty" /\ chk.exit = 1 /\ chk.start # index

(* C6: Check exit code.  A Check run exits 0 exactly when its first diff   *)
(* was empty, Sync then ran and exited 0, and its second diff was empty.   *)
(* When Sync exits non-zero the run exits non-zero without a second diff;  *)
(* when the second diff is not empty the run prints it and exits non-zero. *)
C6_ExitCode ==
    CheckEnded =>
        /\ (chk.exit = 0) <=> (/\ chk.diff1 = "empty"
                               /\ chk.syncRuns = 1
                               /\ chk.syncExit = 0
                               /\ chk.diff2 = "empty")
        /\ (chk.syncExit \notin {-1, 0})
           => (chk.exit # 0 /\ chk.diff2 = "none")
        /\ (chk.diff2 = "nonempty")
           => (chk.exit # 0 /\ chk.printed # <<>> /\ chk.printed = chk.out2)

\* a Check run ended with a non-empty second diff, printed
C6_Witness ==
    /\ CheckEnded
    /\ chk.diff1 = "empty" /\ chk.syncExit = 0
    /\ chk.diff2 = "nonempty" /\ chk.printed # <<>> /\ chk.exit = 1

(* C7: Check success scenario.  For a README with no difference from its   *)
(* version-controlled state, whose region between the unique, ordered      *)
(* markers already is the fenced wrapping of the current help text, the    *)
(* Check tool exits 0 and leaves the README as it was.  (Stated for the     *)
(* runs in which git diff works.)                                          *)
C7_CheckSuccess ==
    (/\ CheckEnded
     /\ ~chk.gitFailed
     /\ chk.start = chk.committed
     /\ chk.diff1 = "empty"
     /\ cli.ok
     /\ WellFormed(chk.start)
     /\ Region(chk.start) = Wrapping(cli.out))
    => (chk.exit = 0 /\ chk.final = chk.start)

(* C8: marker uniqueness is enforced.  When the start marker occurs more   *)
(* than once in the README, Sync fails and does not write the README.      *)
C8_UniquenessEnforced ==
    \A r \in Runs :
        Count(r.before, tag_start) > 1
        => (r.exit # 0 /\ ~r.wrote /\ r.after = r.before)

(* C9: a failure of the version-control command is fatal.  A Check run in  *)
(* which a git diff returned a non-zero status, printing nothing on        *)
(* standard output, exits non-zero: a failed diff is never taken for an    *)
(* empty one.                                                              *)
C9_GitFailureFatal ==
    (CheckEnded /\ chk.gitFailed) => chk.exit # 0

(* C10: the Check tool fails whenever the README differs from its last     *)
(* committed state when the run begins, also when the change is already    *)
(* staged: it exits non-zero without invoking Sync.  (Stated for the runs  *)
(* in which git diff works.)                                               *)
C10_UncommittedStopsCheck ==
    (/\ chk.diff1 # "none"
     /\ ~chk.gitFailed
     /\ chk.start # chk.committed)
    => (/\ chk.syncRuns = 0
        /\ CheckEnded => chk.exit # 0)

====
